---- MODULE Spec2Model ----
(***************************************************************************)
(* HRD operations dashboard (src/app.py): one Streamlit script that loads  *)
(* a spreadsheet, normalises it, filters it by four sidebar facets and     *)
(* aggregates the filtered table by month, category, course type and       *)
(* manager.                                                                *)
(*                                                                         *)
(* Column names are the source's Korean headers written in ASCII:          *)
(*   start_month = 시작월       category1 = 카테고리1   course_type = 과정유형 *)
(*   manager = 담당자           course_name = 과정명    attendance = 참석인원  *)
(*   completion = 이수인원      satisfaction = 과정만족도                    *)
(*   application_rate = 현업적용율   days = 교육일수   hours = 교육시간      *)
(*   content = 교육내용   method = 교육방법   positive = 긍정응답율          *)
(*   nps = 과정NPS        application = 현업적용        ALL = "전체"         *)
(* A string cell is a sequence of one-character strings; the character "w" *)
(* stands for the non-digit suffix 월 of a month label.                    *)
(***************************************************************************)
EXTENDS Integers, Sequences, FiniteSets, TLC

(***************************************************************************)
(* Bounds of the model.                                                    *)
(***************************************************************************)
\* longest raw string cell explored by the label and count input families
MaxLabelLen == 3
\* most rows a spreadsheet of the facet input family holds
MaxRows == 3
\* most rows a spreadsheet of the blank-manager and score input families holds
MaxMetricRows == 2

(***************************************************************************)
(* Cells: the Python objects a DataFrame cell holds.  k is the kind:       *)
(* "str" (s = its characters), "int" / "float" (the rational n/d),         *)
(* "nan" (a blank cell, numpy.nan), "inf" / "ninf" (float infinities).     *)
(***************************************************************************)
Str(s) == [k |-> "str", s |-> s, n |-> 0, d |-> 1]
IntCell(n) == [k |-> "int", s |-> <<>>, n |-> n, d |-> 1]
NaN == [k |-> "nan", s |-> <<>>, n |-> 0, d |-> 1]
Inf == [k |-> "inf", s |-> <<>>, n |-> 0, d |-> 1]
NegInf == [k |-> "ninf", s |-> <<>>, n |-> 0, d |-> 1]

Abs(v) == IF v < 0 THEN -v ELSE v

RECURSIVE Gcd(_, _)
Gcd(a, b) == IF b = 0 THEN a ELSE Gcd(b, a % b)

\* the float n/d, in lowest terms with a positive denominator (d # 0)
Float(n, d) ==
    LET g == Gcd(Abs(n), Abs(d))
        sg == IF d < 0 THEN -1 ELSE 1
    IN  [k |-> "float", s |-> <<>>, n |-> sg * (n \div g), d |-> sg * (d \div g)]

IsNumber(c) == c.k \in {"int", "float"}
IsNaN(c) == c.k = "nan"

Digits == <<"0", "1", "2", "3", "4", "5", "6", "7", "8", "9">>
DigitSet == {Digits[i] : i \in 1..10}
IsDigit(ch) == ch \in DigitSet
DigitVal(ch) == CHOOSE i \in 0..9 : Digits[i + 1] = ch

\* decimal digits of a natural number
RECURSIVE NatStr(_)
NatStr(n) == IF n < 10 THEN <<Digits[n + 1]>> ELSE Append(NatStr(n \div 10), Digits[(n % 10) + 1])

\* Python's str() of a cell: str(3) = "3", str(3.0) = "3.0", str(nan) = "nan".
\* Floats read from a spreadsheet count column are integer valued here.
PyStr(c) ==
    CASE c.k = "str" -> c.s
      [] c.k = "int" -> (IF c.n < 0 THEN <<"-">> ELSE <<>>) \o NatStr(Abs(c.n))
      [] c.k = "float" -> (IF c.n < 0 THEN <<"-">> ELSE <<>>) \o NatStr(Abs(c.n) \div c.d) \o <<".", "0">>
      [] c.k = "nan" -> <<"n", "a", "n">>
      [] c.k = "inf" -> <<"i", "n", "f">>
      [] OTHER -> <<"-", "i", "n", "f">>

\* str.zfill(width) of a string of digits
RECURSIVE zfill(_, _)
zfill(s, width) == IF Len(s) >= width THEN s ELSE zfill(<<"0">> \o s, width)

\* re.sub(r'[^0-9]', '', s): the digits of s, in order
DigitsOf(s) == SelectSeq(s, IsDigit)

DefaultMonth == <<"2", "0", "2", "4", "-", "0", "1">>

\* convert_month: "2024-" + the label's digits zero-filled to two, or the
\* default when the label has no digit.  str() and re.sub raise on no cell
\* of this model, so the except branch (the same default) is never taken.
convert_month(month_str) ==
    LET month_num == DigitsOf(PyStr(month_str))
    IN  IF month_num # <<>>
        THEN Str(<<"2", "0", "2", "4", "-">> \o zfill(month_num, 2))
        ELSE Str(DefaultMonth)

RECURSIVE DecVal(_)
DecVal(s) == IF s = <<>> THEN 0 ELSE 10 * DecVal(SubSeq(s, 1, Len(s) - 1)) + DigitVal(s[Len(s)])

AllDigits(s) == s # <<>> /\ \A i \in 1..Len(s) : IsDigit(s[i])

\* pd.to_numeric(x, errors='coerce') of one cell: a number stays that number
\* (as a float), a string is parsed as an optionally signed decimal integer,
\* anything that does not parse becomes not-a-number.
to_numeric(c) ==
    CASE c.k \in {"int", "float"} -> Float(c.n, c.d)
      [] c.k = "str" ->
            IF AllDigits(c.s) THEN Float(DecVal(c.s), 1)
            ELSE IF Len(c.s) >= 2 /\ c.s[1] = "-" /\ AllDigits(Tail(c.s))
                 THEN Float(-DecVal(Tail(c.s)), 1)
                 ELSE NaN
      [] OTHER -> c

\* Series.fillna(0) of one cell
fillna0(c) == IF IsNaN(c) THEN Float(0, 1) ELSE c

(***************************************************************************)
(* Comparison and ordering of cells as Python does them.                   *)
(***************************************************************************)
\* the characters of the model in code-point order
Alphabet == <<"*", "-", ".", "0", "1", "2", "3", "4", "5", "6", "7", "8", "9",
              "A", "B", "M", "N", "T", "U", "a", "f", "i", "n", "w">>
Ord(ch) == CHOOSE i \in 1..Len(Alphabet) : Alphabet[i] = ch

RECURSIVE StrLess(_, _)
StrLess(a, b) ==
    IF b = <<>> THEN FALSE
    ELSE IF a = <<>> THEN TRUE
    ELSE IF Head(a) = Head(b) THEN StrLess(Tail(a), Tail(b))
    ELSE Ord(Head(a)) < Ord(Head(b))

\* a == b on two cells: not-a-number equals nothing, not even itself
PyEq(a, b) ==
    CASE a.k = "str" /\ b.k = "str" -> a.s = b.s
      [] IsNumber(a) /\ IsNumber(b) -> a.n * b.d = b.n * a.d
      [] OTHER -> FALSE

\* a < b where Python defines it (two strings, or two numbers)
PyLess(a, b) ==
    CASE a.k = "str" /\ b.k = "str" -> StrLess(a.s, b.s)
      [] IsNumber(a) /\ IsNumber(b) -> a.n * b.d < b.n * a.d
      [] OTHER -> FALSE

\* sorted() raises TypeError when it must compare a string with a float
Sortable(vals) ==
    \/ Cardinality(vals) <= 1
    \/ \A v \in vals : v.k = "str"
    \/ \A v \in vals : v.k # "str"

\* ascending order of a set of mutually comparable, distinct cells
RECURSIVE SortCells(_)
SortCells(vals) ==
    IF vals = {} THEN <<>>
    ELSE LET m == CHOOSE v \in vals : \A w \in vals : ~PyLess(w, v)
         IN  <<m>> \o SortCells(vals \ {m})

(***************************************************************************)
(* Float arithmetic on cells (exact rationals; rounding is not modelled).  *)
(***************************************************************************)
Zero == Float(0, 1)
Add(a, b) == Float(a.n * b.d + b.n * a.d, a.d * b.d)
Times100(a) == IF IsNumber(a) THEN Float(a.n * 100, a.d) ELSE a

\* a / b on two float Series elements: x/0 is +-inf, 0/0 is not-a-number
Div(a, b) ==
    IF IsNaN(a) \/ IsNaN(b) THEN NaN
    ELSE IF b.n = 0
         THEN (IF a.n = 0 THEN NaN ELSE IF a.n > 0 THEN Inf ELSE NegInf)
         ELSE Float(a.n * b.d, a.d * b.n)

\* x > 0 on a float (False for not-a-number)
Positive(a) == a.k = "inf" \/ (IsNumber(a) /\ a.n > 0)

RECURSIVE SumSeq(_)
SumSeq(cells) == IF cells = <<>> THEN Zero ELSE Add(Head(cells), SumSeq(Tail(cells)))

\* Series.sum(), Series.mean(), Series.count(): not-a-number cells are skipped
Measured(cells) == SelectSeq(cells, LAMBDA c : ~IsNaN(c))
SeriesSum(cells) == SumSeq(Measured(cells))
SeriesMean(cells) ==
    IF Measured(cells) = <<>> THEN NaN
    ELSE Div(SeriesSum(cells), Float(Len(Measured(cells)), 1))
SeriesCount(cells) == Float(Len(Measured(cells)), 1)

(***************************************************************************)
(* Tables: a DataFrame is its set of columns and its rows in order; a row  *)
(* maps each column to a cell.  None is load_data's failure result.        *)
(***************************************************************************)
Table(cols, rows) == [none |-> FALSE, cols |-> cols, rows |-> rows]
None == [none |-> TRUE, cols |-> {}, rows |-> <<>>]

Column(t, col) == [i \in 1..Len(t.rows) |-> t.rows[i][col]]
Unique(t, col) == {t.rows[i][col] : i \in 1..Len(t.rows)}

\* df[df[col] == value]
FilterBy(t, col, value) ==
    Table(t.cols, SelectSeq(t.rows, LAMBDA r : PyEq(r[col], value)))

(***************************************************************************)
(* load_data: the normalisation of a spreadsheet that was read.            *)
(***************************************************************************)
required_columns == <<"start_month", "category1", "course_type", "manager",
                      "course_name", "attendance", "completion">>
optional_columns == <<"satisfaction", "application_rate", "days", "hours">>
score_5 == <<"satisfaction", "content", "method">>
score_pct == <<"positive", "nps", "application">>
score_columns == score_5 \o score_pct

Range(seq) == {seq[i] : i \in 1..Len(seq)}

\* [col for col in required_columns if col not in df.columns]
missing_columns(t) == SelectSeq(required_columns, LAMBDA col : col \notin t.cols)

\* coerce_fill without its .fillna(0)
coerce_nofill(c) == to_numeric(c)

\* pd.to_numeric(..., errors='coerce').fillna(0) of one cell
coerce_fill(c) == fillna0(to_numeric(c))

\* the column transformations of the script, by name
Apply(op, c) ==
    CASE op = "convert_month" -> convert_month(c)
      [] op = "coerce_fill" -> coerce_fill(c)
      [] OTHER -> to_numeric(c)

\* df[col] = op(df[col]) when col is a column, df[col] = dflt when it is not
SetColumn(t, col, op, dflt) ==
    Table(t.cols \cup {col},
          [i \in 1..Len(t.rows) |->
              [c \in t.cols \cup {col} |->
                  IF c # col THEN t.rows[i][c]
                  ELSE IF col \in t.cols THEN Apply(op, t.rows[i][c]) ELSE dflt]])

\* the loop over optional_columns: an absent column is added as 0, a present
\* one is coerced and zero-filled
RECURSIVE FillOptional(_, _)
FillOptional(t, cols) ==
    IF cols = <<>> THEN t
    ELSE FillOptional(SetColumn(t, Head(cols), "coerce_fill", IntCell(0)), Tail(cols))

\* the table load_data returns when every required column is there
Normalised(t) ==
    LET m == SetColumn(t, "start_month", "convert_month", NaN)
        a == SetColumn(m, "attendance", "coerce_fill", NaN)
        c == SetColumn(a, "completion", "coerce_fill", NaN)
    IN  FillOptional(c, optional_columns)

(***************************************************************************)
(* Filtering and aggregation.                                              *)
(***************************************************************************)
\* the selectbox entry "전체"
ALL == Str(<<"*">>)

Facets == <<"start_month", "category1", "course_type", "manager">>

\* FilterStep that leaves the table alone when no row matches
FilterStepLenient(t, col, selected) ==
    IF selected # ALL /\ FilterBy(t, col, selected).rows # <<>>
    THEN FilterBy(t, col, selected) ELSE t

\* one `if selected != ALL: filtered_df = filtered_df[...]` statement
FilterStep(t, col, selected) ==
    IF selected # ALL THEN FilterBy(t, col, selected) ELSE t

\* Filtered whose last statement filters df instead of filtered_df
FilteredFromDf(t, sel) ==
    IF sel["manager"] # ALL THEN FilterBy(t, "manager", sel["manager"])
    ELSE LET f1 == FilterStep(t, "start_month", sel["start_month"])
             f2 == FilterStep(f1, "category1", sel["category1"])
         IN  FilterStep(f2, "course_type", sel["course_type"])

\* lines 101-109: the four statements in the order month, category, type, manager
Filtered(t, sel) ==
    LET f1 == FilterStep(t, "start_month", sel["start_month"])
        f2 == FilterStep(f1, "category1", sel["category1"])
        f3 == FilterStep(f2, "course_type", sel["course_type"])
    IN  FilterStep(f3, "manager", sel["manager"])

\* the keys of groupby(col): distinct values in ascending order, blank keys dropped
GroupKeys(t, col) == SortCells({v \in Unique(t, col) : ~IsNaN(v)})

\* df.groupby(col).agg({sums: 'sum', means: 'mean', counts: 'count'}).reset_index()
GroupAgg(t, col, sums, means, counts) ==
    LET keys == GroupKeys(t, col)
        out == {col} \cup sums \cup means \cup counts
    IN  Table(out,
              [i \in 1..Len(keys) |->
                  LET g == FilterBy(t, col, keys[i])
                  IN  [c \in out |->
                          IF c = col THEN keys[i]
                          ELSE IF c \in sums THEN SeriesSum(Column(g, c))
                          ELSE IF c \in means THEN SeriesMean(Column(g, c))
                          ELSE SeriesCount(Column(g, c))]])

\* data['수료율'] = data['이수인원'] / data['참석인원'] * 100
WithCompletionRate(t) ==
    Table(t.cols \cup {"completion_rate"},
          [i \in 1..Len(t.rows) |->
              [c \in t.cols \cup {"completion_rate"} |->
                  IF c = "completion_rate"
                  THEN Times100(Div(t.rows[i]["completion"], t.rows[i]["attendance"]))
                  ELSE t.rows[i][c]]])

\* completion_rate without its guard
completion_rate_unguarded(t) ==
    Times100(Div(SeriesSum(Column(t, "completion")), SeriesSum(Column(t, "attendance"))))

\* the KPI card: guarded by `if sum(attendance) > 0 else 0`
completion_rate(t) ==
    IF Positive(SeriesSum(Column(t, "attendance")))
    THEN Times100(Div(SeriesSum(Column(t, "completion")), SeriesSum(Column(t, "attendance"))))
    ELSE IntCell(0)

\* lines 171-174: every score column is added as not-a-number when absent
\* and coerced to numeric without zero-filling, in filtered_df itself
RECURSIVE CoerceScores(_, _)
CoerceScores(t, cols) ==
    IF cols = <<>> THEN t
    ELSE CoerceScores(SetColumn(t, Head(cols), "to_numeric", NaN), Tail(cols))

PctName(col) ==
    CASE col = "positive" -> "positive_pct"
      [] col = "nps" -> "nps_pct"
      [] OTHER -> "application_pct"

\* category_data[f'{col}_pct'] = category_data[col] * 100, for each col of score_pct
RECURSIVE WithPct(_, _)
WithPct(t, cols) ==
    IF cols = <<>> THEN t
    ELSE LET col == Head(cols)
             u == Table(t.cols \cup {PctName(col)},
                        [i \in 1..Len(t.rows) |->
                            [c \in t.cols \cup {PctName(col)} |->
                                IF c = PctName(col) THEN Times100(t.rows[i][col])
                                ELSE t.rows[i][c]]])
         IN  WithPct(u, Tail(cols))

(***************************************************************************)
(* State of one browser session of the script.                             *)
(***************************************************************************)
VARIABLES
    file,              \* the spreadsheet on disk: never written by the script
    cache,             \* st.cache_data's memo of load_data()
    pc,                \* where the script run stands
    df,                \* load_data()'s result
    error,             \* what st.error reported in this run
    selection,         \* the four selectbox values
    filtered_df,
    kpi,               \* the KPI cards drawn (a one-row table of the metrics shown)
    monthly_data,
    category_data,
    course_type_data,
    manager_data,
    charts,            \* the figures drawn in this run
    detail             \* the table handed to st.dataframe

vars == <<file, cache, pc, df, error, selection, filtered_df, kpi, monthly_data,
          category_data, course_type_data, manager_data, charts, detail>>

run_outputs == <<selection, filtered_df, kpi, monthly_data, category_data,
                 course_type_data, manager_data, charts, detail>>

NoError == [kind |-> "none", missing |-> <<>>]
NoSelection == [f \in Range(Facets) |-> ALL]

\* a script run before its first statement
FreshRun ==
    /\ pc = "load"
    /\ df = None
    /\ error = NoError
    /\ selection = NoSelection
    /\ filtered_df = None
    /\ kpi = None
    /\ monthly_data = None
    /\ category_data = None
    /\ course_type_data = None
    /\ manager_data = None
    /\ charts = {}
    /\ detail = None

\* load_data() returns: the result is memoised with the message it showed
Returned(value, err) ==
    /\ df' = value
    /\ error' = err
    /\ cache' = [hit |-> TRUE, value |-> value, error |-> err]
    /\ pc' = "check"
    /\ UNCHANGED <<file, run_outputs>>

\* pd.read_excel raises FileNotFoundError
LoadFileNotFound ==
    /\ pc = "load" /\ ~cache.hit
    /\ file.kind = "notfound"
    /\ Returned(None, [kind |-> "not_found", missing |-> <<>>])

\* pd.read_excel raises something else (the workbook has no sheet "Sheet1")
LoadException ==
    /\ pc = "load" /\ ~cache.hit
    /\ file.kind = "nosheet"
    /\ Returned(None, [kind |-> "exception", missing |-> <<>>])

LoadMissingColumns ==
    /\ pc = "load" /\ ~cache.hit
    /\ file.kind = "ok"
    /\ missing_columns(file.table) # <<>>
    /\ Returned(None, [kind |-> "missing_columns", missing |-> missing_columns(file.table)])

LoadOk ==
    /\ pc = "load" /\ ~cache.hit
    /\ file.kind = "ok"
    /\ missing_columns(file.table) = <<>>
    /\ Returned(Normalised(file.table), NoError)

\* a rerun: st.cache_data returns the memoised result and replays its message
LoadCached ==
    /\ pc = "load" /\ cache.hit
    /\ df' = cache.value
    /\ error' = cache.error
    /\ pc' = "check"
    /\ UNCHANGED <<file, cache, run_outputs>>

\* the script without its st.stop(): a failed load runs on
StopSkipped ==
    /\ pc = "check"
    /\ df.none
    /\ pc' = "filter"
    /\ UNCHANGED <<file, cache, df, error, selection, filtered_df, kpi, monthly_data,
                   category_data, course_type_data, manager_data, charts, detail>>

\* if df is None: st.stop()
Stop ==
    /\ pc = "check"
    /\ df.none
    /\ pc' = "stopped"
    /\ UNCHANGED <<file, cache, df, error, run_outputs>>

\* the options of one selectbox: ["전체"] + sorted(df[col].unique())
Options(t, col) == {ALL} \cup Unique(t, col)

\* lines 82-98: the four selectboxes; the user's choice is any option
Sidebar ==
    /\ pc = "check"
    /\ ~df.none
    /\ \A f \in Range(Facets) : Sortable(Unique(df, f))
    /\ \E m \in Options(df, "start_month"), c \in Options(df, "category1"),
          t \in Options(df, "course_type"), g \in Options(df, "manager") :
            selection' = [f \in Range(Facets) |->
                            CASE f = "start_month" -> m
                              [] f = "category1" -> c
                              [] f = "course_type" -> t
                              [] OTHER -> g]
    /\ pc' = "filter"
    /\ UNCHANGED <<file, cache, df, error, filtered_df, kpi, monthly_data,
                   category_data, course_type_data, manager_data, charts, detail>>

\* sorted() raises TypeError on a facet column that mixes text and blanks or
\* numbers; nothing catches it and the run ends there
SidebarTypeError ==
    /\ pc = "check"
    /\ ~df.none
    /\ \E f \in Range(Facets) : ~Sortable(Unique(df, f))
    /\ pc' = "error"
    /\ UNCHANGED <<file, cache, df, error, run_outputs>>

\* lines 101-109
Filter ==
    /\ pc = "filter"
    /\ filtered_df' = Filtered(df, selection)
    /\ pc' = "kpi"
    /\ UNCHANGED <<file, cache, df, error, selection, kpi, monthly_data,
                   category_data, course_type_data, manager_data, charts, detail>>

\* the metrics shown by lines 119-138
KpiShown(t) ==
    {"courses", "attendance", "completion", "completion_rate"}
      \cup {c \in {"satisfaction", "application_rate", "days", "hours"} :
                Positive(SeriesSum(Column(t, c)))}

KpiValue(t, c) ==
    CASE c = "courses" -> IntCell(Len(t.rows))
      [] c = "completion_rate" -> completion_rate(t)
      [] c \in {"satisfaction", "application_rate"} -> SeriesMean(Column(t, c))
      [] OTHER -> SeriesSum(Column(t, c))

Kpi ==
    /\ pc = "kpi"
    /\ kpi' = Table(KpiShown(filtered_df),
                    <<[c \in KpiShown(filtered_df) |-> KpiValue(filtered_df, c)]>>)
    /\ pc' = "monthly"
    /\ UNCHANGED <<file, cache, df, error, selection, filtered_df, monthly_data,
                   category_data, course_type_data, manager_data, charts, detail>>

\* lines 144-162
MonthlyData(t) ==
    GroupAgg(t, "start_month", {"attendance", "completion"},
             {"satisfaction", "application_rate"}, {})

Monthly ==
    /\ pc = "monthly"
    /\ monthly_data' = MonthlyData(filtered_df)
    /\ charts' = charts \cup {"fig1"} \cup
          (IF \/ Positive(SeriesSum(Column(monthly_data', "satisfaction")))
              \/ Positive(SeriesSum(Column(monthly_data', "application_rate")))
           THEN {"fig2"} ELSE {})
    /\ pc' = "category"
    /\ UNCHANGED <<file, cache, df, error, selection, filtered_df, kpi,
                   category_data, course_type_data, manager_data, detail>>

\* lines 177-186
CategoryData(t) ==
    GroupAgg(t, "category1", {"attendance", "completion"}, Range(score_columns), {})

\* the score charts drawn by lines 195-224
CategoryCharts(t) ==
    {c \in Range(score_5) :
        /\ Positive(SeriesCount(Column(t, c)))
        /\ Positive(SeriesSum(Column(t, c)))}
      \cup {c \in Range(score_pct) : Positive(SeriesSum(Column(t, c)))}

\* lines 167-224
Category ==
    /\ pc = "category"
    /\ filtered_df' = CoerceScores(filtered_df, score_columns)
    /\ category_data' = WithPct(CategoryData(filtered_df'), score_pct)
    /\ charts' = charts \cup {"fig3"} \cup CategoryCharts(CategoryData(filtered_df'))
    /\ pc' = "course_type"
    /\ UNCHANGED <<file, cache, df, error, selection, kpi, monthly_data,
                   course_type_data, manager_data, detail>>

\* lines 230-247
CourseTypeData(t) ==
    WithCompletionRate(GroupAgg(t, "course_type", {"attendance", "completion"},
                                {"satisfaction", "application_rate"}, {}))

CourseType ==
    /\ pc = "course_type"
    /\ course_type_data' = CourseTypeData(filtered_df)
    /\ charts' = charts \cup {"fig5", "fig6"}
    /\ pc' = "manager"
    /\ UNCHANGED <<file, cache, df, error, selection, filtered_df, kpi, monthly_data,
                   category_data, manager_data, detail>>

\* lines 253-272
ManagerData(t) ==
    WithCompletionRate(GroupAgg(t, "manager", {"attendance", "completion"},
                                {"satisfaction", "application_rate"}, {"course_name"}))

Manager ==
    /\ pc = "manager"
    /\ manager_data' = ManagerData(filtered_df)
    /\ charts' = charts \cup {"fig7", "fig8"}
    /\ pc' = "detail"
    /\ UNCHANGED <<file, cache, df, error, selection, filtered_df, kpi, monthly_data,
                   category_data, course_type_data, detail>>

\* lines 275-276: st.dataframe(filtered_df)
Detail ==
    /\ pc = "detail"
    /\ detail' = filtered_df
    /\ pc' = "done"
    /\ UNCHANGED <<file, cache, df, error, selection, filtered_df, kpi, monthly_data,
                   category_data, course_type_data, manager_data, charts>>

\* any interaction reruns the script from its first line; only the memo of
\* load_data survives
Rerun ==
    /\ pc \in {"done", "stopped", "error"}
    /\ pc' = "load"
    /\ df' = None
    /\ error' = NoError
    /\ selection' = NoSelection
    /\ filtered_df' = None
    /\ kpi' = None
    /\ monthly_data' = None
    /\ category_data' = None
    /\ course_type_data' = None
    /\ manager_data' = None
    /\ charts' = {}
    /\ detail' = None
    /\ UNCHANGED <<file, cache>>

Next ==
    \/ LoadFileNotFound
    \/ LoadException
    \/ LoadMissingColumns
    \/ LoadOk
    \/ LoadCached
    \/ Stop
    \/ Sidebar
    \/ SidebarTypeError
    \/ Filter
    \/ Kpi
    \/ Monthly
    \/ Category
    \/ CourseType
    \/ Manager
    \/ Detail
    \/ Rerun

(***************************************************************************)
(* The spreadsheets explored.  Every family holds the files on which the   *)
(* load fails and one whose category column mixes text and a blank.        *)
(***************************************************************************)
AllColumns == Range(required_columns) \cup Range(optional_columns) \cup Range(score_columns)

\* a typical row of the workbook
BaseRow ==
    [c \in AllColumns |->
        CASE c = "start_month" -> Str(<<"0", "1", "w">>)
          [] c = "category1" -> Str(<<"A">>)
          [] c = "course_type" -> Str(<<"T">>)
          [] c = "manager" -> Str(<<"M">>)
          [] c = "course_name" -> Str(<<"a">>)
          [] c = "attendance" -> IntCell(10)
          [] c = "completion" -> IntCell(5)
          [] c \in {"satisfaction", "content", "method"} -> IntCell(4)
          [] c \in {"days", "hours"} -> IntCell(2)
          [] OTHER -> [k |-> "float", s |-> <<>>, n |-> 1, d |-> 2]]

\* the typical row with the cells of `ov` in place of its own, cut to `cols`
Row(cols, ov) == [c \in cols |-> IF c \in DOMAIN ov THEN ov[c] ELSE BaseRow[c]]

OkFile(cols, rows) == [kind |-> "ok", table |-> Table(cols, rows)]

\* all sequences over S of length at most n
SeqsUpTo(S, n) == UNION {[1..k -> S] : k \in 0..n}

FailingFiles ==
    { [kind |-> "notfound", table |-> None],
      [kind |-> "nosheet", table |-> None],
      OkFile(AllColumns \ {"attendance", "manager"}, <<Row(AllColumns \ {"attendance", "manager"}, <<>>)>>),
      OkFile(AllColumns, <<Row(AllColumns, <<>>), Row(AllColumns, [category1 |-> NaN])>>) }

ColumnSets == {AllColumns, Range(required_columns)}

\* rows that differ from the typical row in at most one of the four facets
FacetRows(cols) ==
    { r \in { Row(cols, [start_month |-> m, category1 |-> c, course_type |-> t, manager |-> g]) :
                m \in {Str(<<"0", "1", "w">>), Str(<<"3">>)}, c \in {Str(<<"A">>), Str(<<"B">>)},
                t \in {Str(<<"T">>), Str(<<"U">>)}, g \in {Str(<<"M">>), Str(<<"N">>)} } :
        Cardinality({f \in Range(Facets) : r[f] # BaseRow[f]}) <= 1 }

FacetFiles(n) == {OkFile(AllColumns, rows) : rows \in SeqsUpTo(FacetRows(AllColumns), n)}

\* rows whose manager is a number or blank (a numeric column with gaps)
BlankManagerRows ==
    { Row(AllColumns, [category1 |-> c, manager |-> g]) :
        c \in {Str(<<"A">>), Str(<<"B">>)}, g \in {IntCell(1), NaN} }

BlankManagerFiles(n) == {OkFile(AllColumns, rows) : rows \in SeqsUpTo(BlankManagerRows, n)}

\* raw start-month labels: every string over LabelChars up to the bound,
\* month numbers stored as integers or floats, and the blank cell
LabelChars == {"0", "1", "3", "-", "w"}
LabelCells(n) ==
    {Str(s) : s \in SeqsUpTo(LabelChars, n)}
      \cup {IntCell(v) : v \in 0..13}
      \cup {[k |-> "float", s |-> <<>>, n |-> v, d |-> 1] : v \in 1..12}
      \cup {NaN}

LabelFiles(n) == {OkFile(AllColumns, <<Row(AllColumns, [start_month |-> m])>>) : m \in LabelCells(n)}

\* raw count cells: every string over CountChars up to the bound, integers
\* of either sign, and the blank cell
CountChars == {"0", "1", "-", "w"}
CountCells(n) ==
    {Str(s) : s \in SeqsUpTo(CountChars, n)}
      \cup {IntCell(v) : v \in -2..2}
      \cup {NaN}

CountFiles(n) ==
    {OkFile(AllColumns, <<Row(AllColumns, [attendance |-> a])>>) : a \in CountCells(n)}
      \cup {OkFile(AllColumns, <<Row(AllColumns, [attendance |-> IntCell(0), completion |-> c])>>) :
                c \in CountCells(n)}

\* rows whose category is a numeric code or blank and whose scores are
\* measured, blank or text; with and without the optional columns
MetricRows(cols) ==
    { Row(cols, [category1 |-> c, satisfaction |-> s, content |-> q]) :
        c \in {IntCell(1), IntCell(2), NaN},
        s \in {IntCell(4), IntCell(0), NaN},
        q \in {IntCell(5), NaN, Str(<<"w">>)} }

MetricFiles(n) ==
    UNION { {OkFile(cols, rows) : rows \in SeqsUpTo(MetricRows(cols), n)} : cols \in ColumnSets }

InitWith(files) ==
    /\ file \in files
    /\ cache = [hit |-> FALSE, value |-> None, error |-> NoError]
    /\ FreshRun

Init == InitWith(FailingFiles \cup FacetFiles(MaxRows) \cup BlankManagerFiles(MaxMetricRows))
InitLabels == InitWith(FailingFiles \cup LabelFiles(MaxLabelLen))
InitCounts == InitWith(FailingFiles \cup CountFiles(MaxLabelLen))
InitMetrics == InitWith(FailingFiles \cup MetricFiles(MaxMetricRows))

Spec == Init /\ [][Next]_vars
SpecLabels == InitLabels /\ [][Next]_vars
SpecCounts == InitCounts /\ [][Next]_vars
SpecMetrics == InitMetrics /\ [][Next]_vars

(***************************************************************************)
(* Vocabulary of the properties.                                           *)
(***************************************************************************)
\* the same value: two blanks, two equal numbers or strings, the same infinity
SameCell(a, b) ==
    \/ IsNaN(a) /\ IsNaN(b)
    \/ PyEq(a, b)
    \/ a.k = b.k /\ a.k \in {"inf", "ninf"}

\* the same columns and, row by row, the same values
SameTable(a, b) ==
    /\ a.none = b.none
    /\ a.cols = b.cols
    /\ Len(a.rows) = Len(b.rows)
    /\ \A i \in 1..Len(a.rows) : \A c \in a.cols : SameCell(a.rows[i][c], b.rows[i][c])

\* the row agrees with the selection on every facet that is not "no filter"
Matches(r, sel) == \A f \in Range(Facets) : sel[f] # ALL => PyEq(r[f], sel[f])

ActiveFacets(sel) == {f \in Range(Facets) : sel[f] # ALL}

\* script positions at which the named step has run in this pass
AfterFilter == {"kpi", "monthly", "category", "course_type", "manager", "detail", "done"}
AfterKpi == AfterFilter \ {"kpi"}
AfterMonthly == AfterKpi \ {"monthly"}
AfterCategory == AfterMonthly \ {"category"}
AfterCourseType == AfterCategory \ {"course_type"}
AfterManager == AfterCourseType \ {"manager"}

HasDigit(s) == \E i \in 1..Len(s) : IsDigit(s[i])

\* "2024-01" .. "2024-12"
ValidMonths == {Str(<<"2", "0", "2", "4", "-">> \o zfill(NatStr(m), 2)) : m \in 1..12}

\* a raw cell that holds a number: a numeric cell or the text of a signed integer
RawNumeric(c) ==
    \/ IsNumber(c)
    \/ /\ c.k = "str"
       /\ HasDigit(c.s)
       /\ \A i \in 1..Len(c.s) : IsDigit(c.s[i]) \/ (i = 1 /\ c.s[i] = "-")

RawNegative(c) ==
    \/ IsNumber(c) /\ c.n < 0
    \/ c.k = "str" /\ c.s # <<>> /\ c.s[1] = "-"

\* the column is absent from the workbook, or the cell is blank or not a number
Unmeasured(t, i, c) == c \notin t.cols \/ ~RawNumeric(t.rows[i][c])

\* the facet statements applied in the order given
RECURSIVE ApplyInOrder(_, _, _)
ApplyInOrder(t, sel, order) ==
    IF order = <<>> THEN t
    ELSE ApplyInOrder(FilterStep(t, Head(order), sel[Head(order)]), sel, Tail(order))

FacetOrders ==
    { [i \in 1..Len(Facets) |-> Facets[p[i]]] :
        p \in {q \in [1..Len(Facets) -> 1..Len(Facets)] :
                  \A i, j \in 1..Len(Facets) : i # j => q[i] # q[j]} }

\* the guarded completion rate of one aggregate row
RateGuarded(row) ==
    IF row["attendance"].n # 0
    THEN SameCell(row["completion_rate"], Times100(Div(row["completion"], row["attendance"])))
    ELSE PyEq(row["completion_rate"], Zero)

\* the group sums of an aggregate add up to the sums over the filtered table
GroupSumsAddUp(data) ==
    \A m \in {"attendance", "completion"} :
        PyEq(SeriesSum(Column(data, m)), SeriesSum(Column(filtered_df, m)))

\* every column load_data promises is there, with a month text and numeric counts
FullyNormalised(t) ==
    /\ Range(required_columns) \cup Range(optional_columns) \subseteq t.cols
    /\ \A i \in 1..Len(t.rows) :
          /\ t.rows[i]["start_month"].k = "str"
          /\ SubSeq(t.rows[i]["start_month"].s, 1, 5) = <<"2", "0", "2", "4", "-">>
          /\ \A c \in {"attendance", "completion"} \cup Range(optional_columns) :
                IsNumber(t.rows[i][c])

\* the workbook cannot be read or lacks a required column
LoadShouldFail ==
    \/ file.kind # "ok"
    \/ \E c \in Range(required_columns) : c \notin file.table.cols

\* the loaded table has no row that agrees with the selection
NoMatch == ~df.none /\ \A i \in 1..Len(df.rows) : ~Matches(df.rows[i], selection)

(***************************************************************************)
(* C1.  Month normalisation: a raw start-month label that contains a digit *)
(* becomes "2024-MM" with MM in 01..12, and a label without a digit        *)
(* becomes exactly "2024-01".  (Refuted: "13w" becomes "2024-13", "0"      *)
(* becomes "2024-00", the float 3.0 becomes "2024-30".)                    *)
(***************************************************************************)
C1_MonthIsValid ==
    (pc = "check" /\ ~df.none) =>
        \A i \in 1..Len(df.rows) :
            LET raw == file.table.rows[i]["start_month"]
                out == df.rows[i]["start_month"]
            IN  raw.k = "str" =>
                    IF HasDigit(raw.s) THEN out \in ValidMonths ELSE out = Str(DefaultMonth)

(***************************************************************************)
(* C2.  In the course-type and the manager aggregation every group's       *)
(* completion rate is sum(completion)/sum(attendance)*100 when the group's *)
(* attendance sum is not zero and is 0 when it is zero; never an infinity  *)
(* or not-a-number.  (Refuted: the two aggregations divide unguarded.)     *)
(***************************************************************************)
C2_GroupRateGuarded ==
    /\ pc \in AfterCourseType =>
          \A i \in 1..Len(course_type_data.rows) : RateGuarded(course_type_data.rows[i])
    /\ pc \in AfterManager =>
          \A i \in 1..Len(manager_data.rows) : RateGuarded(manager_data.rows[i])

(***************************************************************************)
(* C3.  The filtered table is exactly the rows of the loaded table, in     *)
(* their order, that equal the selection on every active facet; so every   *)
(* output row matches each active facet, the output is no longer than the  *)
(* input, and with no facet active the output is the loaded table.         *)
(***************************************************************************)
C3_FilterIsExactSubset ==
    pc = "kpi" =>
        /\ filtered_df.cols = df.cols
        /\ filtered_df.rows = SelectSeq(df.rows, LAMBDA r : Matches(r, selection))
        /\ \A i \in 1..Len(filtered_df.rows) :
              \A f \in ActiveFacets(selection) : filtered_df.rows[i][f] = selection[f]
        /\ Len(filtered_df.rows) <= Len(df.rows)
        /\ (selection = NoSelection => filtered_df = df)

\* a filter that keeps some rows and drops others
C3_Witness ==
    /\ pc = "kpi"
    /\ ActiveFacets(selection) # {}
    /\ filtered_df.rows # <<>>
    /\ Len(filtered_df.rows) < Len(df.rows)

(***************************************************************************)
(* C4.  For each grouping (month, category, course type, manager) and each *)
(* summed metric (attendance, completion) the group sums add up to the     *)
(* metric's sum over the filtered table, also when a row has no value in   *)
(* the grouping column.  (Refuted: groupby drops the rows whose key is     *)
(* blank.)                                                                 *)
(***************************************************************************)
C4_GroupSumsAddUp ==
    pc = "done" =>
        /\ GroupSumsAddUp(monthly_data)
        /\ GroupSumsAddUp(category_data)
        /\ GroupSumsAddUp(course_type_data)
        /\ GroupSumsAddUp(manager_data)

(***************************************************************************)
(* C5.  As stated: after a successful load every attendance and completion *)
(* count is a number >= 0 whatever the raw cell held.  (Refuted by a raw   *)
(* negative number, which is kept.)                                        *)
(***************************************************************************)
C5_CountsNonNegative ==
    (pc = "check" /\ ~df.none) =>
        \A i \in 1..Len(df.rows) : \A c \in {"attendance", "completion"} :
            IsNumber(df.rows[i][c]) /\ df.rows[i][c].n >= 0

(***************************************************************************)
(* C5, amended.  After a successful load every attendance and completion   *)
(* count is a number, never not-a-number: a raw cell that is blank or not  *)
(* numeric becomes 0, and a count is negative only where the raw cell held *)
(* a negative number.                                                      *)
(***************************************************************************)
C5_CountsAreNumbers ==
    (pc = "check" /\ ~df.none) =>
        \A i \in 1..Len(df.rows) : \A c \in {"attendance", "completion"} :
            LET raw == file.table.rows[i][c]
                v == df.rows[i][c]
            IN  /\ IsNumber(v)
                /\ ~RawNumeric(raw) => v.n = 0
                /\ v.n < 0 => RawNumeric(raw) /\ RawNegative(raw)

\* a loaded row whose raw attendance was the text "-1" and is now -1
C5_Witness ==
    /\ pc = "check" /\ ~df.none
    /\ \E i \in 1..Len(df.rows) :
          /\ file.table.rows[i]["attendance"] = Str(<<"-", "1">>)
          /\ df.rows[i]["attendance"].n = -1

(***************************************************************************)
(* C6.  For every score of the category analysis (satisfaction, content,   *)
(* method, positive-response rate, NPS, application) a value that is blank *)
(* or not numeric in the workbook is still not-a-number when the category  *)
(* aggregation reads it, so a category's mean is taken over the measured   *)
(* rows only.  (Refuted for satisfaction: load_data has zero-filled it.)   *)
(***************************************************************************)
C6_ScoresStayUnmeasured ==
    (pc \in AfterCategory /\ selection = NoSelection) =>
        \A c \in Range(score_columns) :
            /\ \A i \in 1..Len(filtered_df.rows) :
                  Unmeasured(file.table, i, c) => IsNaN(filtered_df.rows[i][c])
            /\ \A g \in 1..Len(category_data.rows) :
                  LET members == {i \in 1..Len(filtered_df.rows) :
                                     /\ PyEq(filtered_df.rows[i]["category1"],
                                             category_data.rows[g]["category1"])
                                     /\ ~Unmeasured(file.table, i, c)}
                  IN  members = {} => IsNaN(category_data.rows[g][c])

(***************************************************************************)
(* C7.  A load ends in exactly one of two outcomes: a fully normalised     *)
(* table, or (required column missing, file not found, any other           *)
(* exception) no table and a halted session; a run that failed executes no *)
(* filter, aggregation or rendering step.                                  *)
(***************************************************************************)
C7_LoadAllOrNothing ==
    pc # "load" =>
        /\ LoadShouldFail <=> df.none
        /\ ~df.none => error = NoError /\ FullyNormalised(df)
        /\ df.none =>
              /\ error # NoError
              /\ pc \in {"check", "stopped"}
              /\ selection = NoSelection
              /\ filtered_df = None /\ kpi = None /\ monthly_data = None
              /\ category_data = None /\ course_type_data = None
              /\ manager_data = None /\ charts = {} /\ detail = None

\* a load that failed on a missing column and halted the session
C7_Witness == pc = "stopped" /\ error.kind = "missing_columns" /\ df.none

(***************************************************************************)
(* C8.  No aggregation step changes the filtered table: its columns and    *)
(* cells are the same after the month, category, course-type and manager   *)
(* aggregations as right after filtering, so the detail table is the       *)
(* filter's output.  (Refuted: the category step adds the score columns    *)
(* to filtered_df and coerces them.)                                       *)
(***************************************************************************)
C8_AggregationsKeepFiltered ==
    [][/\ pc \in {"monthly", "category", "course_type", "manager"} =>
             SameTable(filtered_df', filtered_df)
       /\ pc = "detail" => SameTable(detail', Filtered(df, selection))]_vars

(***************************************************************************)
(* C9.  Applying the four facet statements in any order gives the filtered *)
(* table the script computes in the order month, category, course type,    *)
(* manager: the same rows in the same order.                               *)
(***************************************************************************)
C9_FacetOrderIrrelevant ==
    pc = "kpi" =>
        \A order \in FacetOrders : ApplyInOrder(df, selection, order) = filtered_df

\* two active facets that each drop a row the other keeps
C9_Witness ==
    /\ pc = "kpi"
    /\ \E f, g \in ActiveFacets(selection) :
          /\ f # g
          /\ \E i, j \in 1..Len(df.rows) :
                /\ PyEq(df.rows[i][f], selection[f]) /\ ~PyEq(df.rows[i][g], selection[g])
                /\ PyEq(df.rows[j][g], selection[g]) /\ ~PyEq(df.rows[j][f], selection[f])

(***************************************************************************)
(* C10.  When the selection matches no row the filtered table is empty and *)
(* the pass runs to its end without an error: the overall completion rate  *)
(* is 0 and every aggregation has zero groups.                             *)
(***************************************************************************)
C10_EmptySelectionCompletes ==
    (pc \in AfterFilter /\ NoMatch) =>
        /\ filtered_df.rows = <<>>
        /\ pc \in AfterKpi =>
              /\ kpi.rows[1]["completion_rate"] \in {IntCell(0), Zero}
              /\ kpi.rows[1]["courses"] = IntCell(0)
        /\ pc \in AfterMonthly => monthly_data.rows = <<>>
        /\ pc \in AfterCategory => category_data.rows = <<>>
        /\ pc \in AfterCourseType => course_type_data.rows = <<>>
        /\ pc \in AfterManager => manager_data.rows = <<>>
        /\ pc # "done" => ENABLED Next

\* a finished pass over a non-empty table of which the selection kept nothing
C10_Witness ==
    /\ pc = "done"
    /\ NoMatch
    /\ df.rows # <<>>
    /\ detail.rows = <<>>

====
